---- MODULE Spec2Model ----
(***************************************************************************)
(* Model of CpuSet (src/src/cpuset.rs): a growable Vec<u64> bitmask.        *)
(*                                                                         *)
(* Representation.  A u64 word is the set of its bit positions that hold 1 *)
(* (a subset of 0..63), because a 64-bit value does not fit TLC's 32-bit   *)
(* integers.  `x |= 1 << bit` is union with {bit}, `x ^= 1 << bit` is the  *)
(* symmetric difference with {bit}, `x & (1 << bit) != 0` is membership.   *)
(* The Vec is a sequence of words; Rust index e is index e + 1 here.       *)
(* The byte view used by ptr::write / ptr::copy is little-endian, the      *)
(* layout the crate's own tests assert (test_from_mask_u8, test_as_u64).   *)
(* usize arithmetic is modelled for arguments far below 2^64 - 64, where   *)
(* `num_cpus + MASK_BITS - 1` and `cpu + 1` cannot wrap.                   *)
(***************************************************************************)
EXTENDS Integers, Sequences, FiniteSets, TLC

VARIABLES mask, phase, op, ret, ctor, test_max, test_i

vars == <<mask, phase, op, ret, ctor, test_max, test_i>>

\* const MASK_BITS: usize = 64
MASK_BITS == 64

\* mem::size_of::<u64>(), the out_size of as_u64
U64_BYTES == 8

----------------------------------------------------------------------------
(* Bounds of the model *)

\* new(num_cpus) is called with num_cpus in 0 .. MASK_BITS * MaxWords + 1
MaxWords == 2

\* the loop bound `max` of test_set_and_is_set is drawn from 0 .. MaxTestCpus
MaxTestCpus == 100

\* bit positions a scalar mask may have set: both ends of every scalar width
ValueBits == {0, 7, 8, 15, 31, 32, 63}

\* sizes in bytes of the scalar types u8, u16, u32, u64
ScalarSizes == {1, 2, 4, 8}

ScalarValues(T) == SUBSET {b \in ValueBits : b < 8 * T}

NewInputs == 0 .. (MASK_BITS * MaxWords + 1)

\* cpu indices for set / clear / is_set: both ends of every word up to one
\* word past MaxWords, the two sides of the `elem > self.len()` comparison of
\* is_set for each word count, and the far index of test_is_set_too_large
CpuIndices ==
    { MASK_BITS * w : w \in 0..MaxWords }
    \cup { MASK_BITS * w + MASK_BITS - 1 : w \in 0..MaxWords }
    \cup { MASK_BITS * U64_BYTES * w : w \in 1..MaxWords }
    \cup { MASK_BITS * (U64_BYTES * w + 1) : w \in 1..MaxWords }
    \cup { 10000 }

\* single(cpu) is called with the in-range indices above and the two indices
\* of test_single_low and test_single_high
SingleInputs == { c \in CpuIndices : c < MASK_BITS * MaxWords } \cup {3, 29}

\* the host has the cpus 0 .. MaxOsCpus - 1
MaxOsCpus == 4

\* cpus the operating system may report in an affinity mask
OsCpus == 0..(MaxOsCpus - 1)

\* num_cpus arguments of get_affinity: none, those of test_set_get_self_affinity
\* and test_set_get_self_affinity_2, a full word, one bit past a word
AffinityInputs == {0, 1, 2, MASK_BITS, MASK_BITS + 1}

\* pid arguments of the affinity calls: the calling thread and another process
Pids == {0, 999999999}

----------------------------------------------------------------------------
(* Pure functions of impl CpuSet *)

\* cmp::max
max(a, b) == IF a >= b THEN a ELSE b

\* CpuSet::new with elements computed without rounding up (mutant)
new_truncating(num_cpus) ==
    LET elements == num_cpus \div MASK_BITS
    IN  [k \in 1..max(elements, 1) |-> {}]

\* CpuSet::new: vec![0; max((num_cpus + MASK_BITS - 1) / MASK_BITS, 1)]
new(num_cpus) ==
    LET elements == (num_cpus + MASK_BITS - 1) \div MASK_BITS
    IN  [k \in 1..max(elements, 1) |-> {}]

\* CpuSet::len: number of bytes in the mask
len(m) == (MASK_BITS \div 8) * Len(m)

\* the value of the bits 0 .. n-1 of the bit set S as an integer
RECURSIVE BitsToInt(_, _)
BitsToInt(S, n) ==
    IF n = 0 THEN 0
    ELSE BitsToInt(S, n - 1) + (IF (n - 1) \in S THEN 2 ^ (n - 1) ELSE 0)

\* byte b (0..7) of a u64 word in memory, little-endian
ByteOfWord(w, b) == BitsToInt({ k \in 0..7 : (8 * b + k) \in w }, 8)

\* the u64 word held by the 8 bytes of mem starting at address base
WordOfBytes(mem, base) ==
    { 8 * b + k : b \in 0..7, k \in 0..7 } \cap
    { c \in 0..(MASK_BITS - 1) : (mem[base + (c \div 8)] \div (2 ^ (c % 8))) % 2 = 1 }

\* mask_ptr / mut_mask_ptr: the Vec's storage seen as bytes at addresses 0 ..
MaskBytes(m) == [a \in 0..(len(m) - 1) |-> ByteOfWord(m[(a \div 8) + 1], a % 8)]

\* the object representation of a scalar of T bytes whose set bits are v
ScalarBytes(v, T) == [a \in 0..(T - 1) |-> BitsToInt({ k \in 0..7 : (8 * a + k) \in v }, 8)]

\* ptr::write(dst as *mut T, value): T bytes stored at the start of the buffer
PtrWrite(m, src, T) ==
    LET old == MaskBytes(m)
        mem == [a \in 0..(len(m) - 1) |-> IF a < T THEN src[a] ELSE old[a]]
    IN  [k \in 1..Len(m) |-> WordOfBytes(mem, 8 * (k - 1))]

\* CpuSet::from_mask storing the scalar at the end of the first word (mutant)
from_mask_high(T, v) ==
    LET cpuset == new(8 * T)
        src == ScalarBytes(v, T)
        old == MaskBytes(cpuset)
        off == U64_BYTES - T
        mem == [a \in 0..(len(cpuset) - 1) |->
                   IF a >= off /\ a < off + T THEN src[a - off] ELSE old[a]]
    IN  [k \in 1..Len(cpuset) |-> WordOfBytes(mem, 8 * (k - 1))]

\* CpuSet::from_mask::<T>(mask): T is size_of::<T>(), v the set bits of mask
from_mask(T, v) ==
    LET cpuset == new(8 * T)
    IN  PtrWrite(cpuset, ScalarBytes(v, T), T)

\* the `while elem > self.mask.len() { self.mask.push(0) }` loop of set
RECURSIVE grow(_, _)
grow(m, elem) == IF elem > Len(m) THEN grow(Append(m, {}), elem) ELSE m

\* CpuSet::set assigning the single-bit mask instead of or-ing it in (mutant)
set_assign(m, cpu) ==
    LET elem == cpu \div MASK_BITS
        bit  == cpu % MASK_BITS
        g    == grow(m, elem)
    IN  IF elem < Len(g)
        THEN [panic |-> FALSE, mask |-> [g EXCEPT ![elem + 1] = {bit}]]
        ELSE [panic |-> TRUE, mask |-> g]

\* CpuSet::set: the grown buffer, and whether self.mask[elem] is out of bounds
set(m, cpu) ==
    LET elem == cpu \div MASK_BITS
        bit  == cpu % MASK_BITS
        g    == grow(m, elem)
    IN  IF elem < Len(g)
        THEN [panic |-> FALSE, mask |-> [g EXCEPT ![elem + 1] = @ \cup {bit}]]
        ELSE [panic |-> TRUE, mask |-> g]

\* CpuSet::clear growing the buffer the way set does when out of range (mutant)
clear_growing(m, cpu) ==
    LET elem == cpu \div MASK_BITS
        bit  == cpu % MASK_BITS
        g    == grow(m, elem + 1)
    IN  [g EXCEPT ![elem + 1] = (@ \ {bit}) \cup ({bit} \ @)]

\* CpuSet::clear: self.mask[elem] ^= 1 << bit when elem < self.mask.len()
clear(m, cpu) ==
    LET elem == cpu \div MASK_BITS
        bit  == cpu % MASK_BITS
    IN  IF elem < Len(m)
        THEN [m EXCEPT ![elem + 1] = (@ \ {bit}) \cup ({bit} \ @)]
        ELSE m

\* CpuSet::is_set: false when elem > self.len() (the BYTE length), otherwise
\* self.mask[elem] & (1 << bit) != 0, which panics when elem >= self.mask.len()
is_set(m, cpu) ==
    LET elem == cpu \div MASK_BITS
        bit  == cpu % MASK_BITS
    IN  IF elem > len(m)
        THEN [panic |-> FALSE, val |-> FALSE]
        ELSE IF elem < Len(m)
             THEN [panic |-> FALSE, val |-> bit \in m[elem + 1]]
             ELSE [panic |-> TRUE, val |-> FALSE]

\* CpuSet::as_u64 copying the first word without the size check (mutant)
as_u64_truncating(m) ==
    LET src == MaskBytes(m)
        out == [a \in 0..(U64_BYTES - 1) |-> src[a]]
    IN  [err |-> FALSE, val |-> WordOfBytes(out, 0)]

\* CpuSet::as_u64: Err when len() > 8, else the first len() bytes copied over
\* a zero u64
as_u64(m) ==
    LET src_size == len(m)
        out_size == U64_BYTES
        src      == MaskBytes(m)
        out      == [a \in 0..(out_size - 1) |-> IF a < src_size THEN src[a] ELSE 0]
    IN  IF src_size > out_size
        THEN [err |-> TRUE, val |-> {}]
        ELSE [err |-> FALSE, val |-> WordOfBytes(out, 0)]

\* the affinity masks sched_getaffinity may store in a buffer of nbytes
\* bytes: any set of the host's cpus, never the empty one (a thread is always
\* allowed on at least one cpu)
OsAffinities(nbytes) == SUBSET { c \in OsCpus : c < 8 * nbytes } \ { {} }

\* CpuSet::get_affinity when sched_getaffinity returns 0: new(num_cpus) whose
\* len() bytes were overwritten through mut_mask_ptr() with the cpu set aff
get_affinity(num_cpus, aff) ==
    LET cpuset == new(num_cpus)
    IN  PtrWrite(cpuset, ScalarBytes(aff, len(cpuset)), len(cpuset))

\* CpuSet::single sizing the buffer for cpu instead of cpu + 1 bits (mutant)
single_short(cpu) == set(new(cpu), cpu)

\* CpuSet::single: new(cpu + 1) followed by set(cpu)
single(cpu) == set(new(cpu + 1), cpu)

----------------------------------------------------------------------------
(* State machine: one CpuSet driven by a caller; the operating system's     *)
(* answers to the affinity calls are chosen nondeterministically            *)

NoOp   == [name |-> "none", arg |-> 0]
NoCtor == [name |-> "none", arg |-> 0, value |-> {}]
Unit   == [kind |-> "unit", val |-> 0]
Panic  == [kind |-> "panic", val |-> 0]

Init ==
    /\ mask = << >>
    /\ phase = "none"
    /\ op = NoOp
    /\ ret = Unit
    /\ ctor = NoCtor
    /\ test_max = 0
    /\ test_i = 0

\* let cpuset = CpuSet::new(n)
New(n) ==
    /\ phase = "none"
    /\ mask' = new(n)
    /\ phase' = "live"
    /\ op' = [name |-> "new", arg |-> n]
    /\ ret' = Unit
    /\ ctor' = [name |-> "new", arg |-> n, value |-> {}]
    /\ UNCHANGED <<test_max, test_i>>

\* let cpuset = CpuSet::from_mask::<T>(v)
FromMask(T, v) ==
    /\ phase = "none"
    /\ mask' = from_mask(T, v)
    /\ phase' = "live"
    /\ op' = [name |-> "from_mask", arg |-> T]
    /\ ret' = Unit
    /\ ctor' = [name |-> "from_mask", arg |-> T, value |-> v]
    /\ UNCHANGED <<test_max, test_i>>

\* let cpuset = CpuSet::single(c)
Single(c) ==
    /\ phase = "none"
    /\ LET r == single(c)
       IN  /\ mask' = r.mask
           /\ phase' = IF r.panic THEN "panicked" ELSE "live"
           /\ ret' = IF r.panic THEN Panic ELSE Unit
    /\ op' = [name |-> "single", arg |-> c]
    /\ ctor' = [name |-> "single", arg |-> c, value |-> {}]
    /\ UNCHANGED <<test_max, test_i>>

\* cpuset.set(c)
Set(c) ==
    /\ phase = "live"
    /\ LET r == set(mask, c)
       IN  /\ mask' = r.mask
           /\ phase' = IF r.panic THEN "panicked" ELSE "live"
           /\ ret' = IF r.panic THEN Panic ELSE Unit
    /\ op' = [name |-> "set", arg |-> c]
    /\ ctor' = NoCtor
    /\ UNCHANGED <<test_max, test_i>>

\* cpuset.clear(c)
Clear(c) ==
    /\ phase = "live"
    /\ mask' = clear(mask, c)
    /\ op' = [name |-> "clear", arg |-> c]
    /\ ret' = Unit
    /\ ctor' = NoCtor
    /\ UNCHANGED <<phase, test_max, test_i>>

\* cpuset.is_set(c)
IsSet(c) ==
    /\ phase = "live"
    /\ LET r == is_set(mask, c)
       IN  /\ phase' = IF r.panic THEN "panicked" ELSE "live"
           /\ ret' = IF r.panic THEN Panic ELSE [kind |-> "bool", val |-> r.val]
    /\ op' = [name |-> "is_set", arg |-> c]
    /\ UNCHANGED <<mask, ctor, test_max, test_i>>

\* cpuset.len()
LenOp ==
    /\ phase = "live"
    /\ op' = [name |-> "len", arg |-> 0]
    /\ ret' = [kind |-> "usize", val |-> len(mask)]
    /\ UNCHANGED <<mask, phase, ctor, test_max, test_i>>

\* cpuset.as_u64()
AsU64 ==
    /\ phase = "live"
    /\ LET r == as_u64(mask)
       IN  ret' = IF r.err THEN [kind |-> "Err", val |-> {}]
                  ELSE [kind |-> "Ok", val |-> r.val]
    /\ op' = [name |-> "as_u64", arg |-> 0]
    /\ UNCHANGED <<mask, phase, ctor, test_max, test_i>>

\* CpuSet::get_affinity(pid, n): Ok(cpuset) holding the mask the operating
\* system stored, or Err(()) with no CpuSet when sched_getaffinity fails (no
\* such pid, buffer shorter than the kernel's mask)
GetAffinity(pid, n) ==
    /\ phase = "none"
    /\ \/ \E aff \in OsAffinities(len(new(n))) :
              /\ mask' = get_affinity(n, aff)
              /\ phase' = "live"
              /\ ret' = [kind |-> "Ok", val |-> {}]
       \/ /\ ret' = [kind |-> "Err", val |-> {}]
          /\ UNCHANGED <<mask, phase>>
    /\ op' = [name |-> "get_affinity", arg |-> n]
    /\ ctor' = NoCtor
    /\ UNCHANGED <<test_max, test_i>>

\* cpuset.set_affinity(pid): the buffer is only read; Ok(()) when
\* sched_setaffinity returns 0, which it never does for a mask without a cpu
SetAffinity(pid) ==
    /\ phase = "live"
    /\ \/ /\ \E k \in 1..Len(mask) : mask[k] # {}
          /\ ret' = [kind |-> "Ok", val |-> {}]
       \/ ret' = [kind |-> "Err", val |-> {}]
    /\ op' = [name |-> "set_affinity", arg |-> 0]
    /\ UNCHANGED <<mask, phase, ctor, test_max, test_i>>

\* tests::test_set_and_is_set: `let mut cpuset = CpuSet::new(max);`
TestNew(n) ==
    /\ phase = "none"
    /\ mask' = new(n)
    /\ phase' = "test"
    /\ op' = [name |-> "test", arg |-> n]
    /\ ret' = Unit
    /\ ctor' = NoCtor
    /\ test_max' = n
    /\ test_i' = 0

\* the inner loop: assert!(cpuset.is_set(j).bitxor(j >= i)) for j in 0..max
TestAsserts(m, i, n) ==
    \A j \in 0..(n - 1) :
        LET r == is_set(m, j)
        IN  ~r.panic /\ (r.val # (j >= i))

\* one iteration of the outer loop: the assertions, then cpuset.set(i)
TestStep ==
    /\ phase = "test"
    /\ test_i < test_max
    /\ LET r == set(mask, test_i)
       IN  IF ~TestAsserts(mask, test_i, test_max)
           THEN /\ phase' = "panicked"
                /\ ret' = Panic
                /\ UNCHANGED <<mask, test_i>>
           ELSE /\ mask' = r.mask
                /\ phase' = IF r.panic THEN "panicked" ELSE "test"
                /\ ret' = IF r.panic THEN Panic ELSE Unit
                /\ test_i' = test_i + 1
    /\ UNCHANGED <<op, ctor, test_max>>

\* after the loop: assert!(cpuset.is_set(i)) for i in 0..max
TestFinish ==
    /\ phase = "test"
    /\ test_i = test_max
    /\ LET ok == \A j \in 0..(test_max - 1) :
                     LET r == is_set(mask, j) IN ~r.panic /\ r.val
       IN  /\ phase' = IF ok THEN "passed" ELSE "panicked"
           /\ ret' = IF ok THEN Unit ELSE Panic
    /\ UNCHANGED <<mask, op, ctor, test_max, test_i>>

Next ==
    \/ \E n \in NewInputs : New(n)
    \/ \E T \in ScalarSizes : \E v \in ScalarValues(T) : FromMask(T, v)
    \/ \E c \in SingleInputs : Single(c)
    \/ \E c \in CpuIndices : Set(c)
    \/ \E c \in CpuIndices : Clear(c)
    \/ \E c \in CpuIndices : IsSet(c)
    \/ LenOp
    \/ AsU64
    \/ \E pid \in Pids : \E n \in AffinityInputs : GetAffinity(pid, n)
    \/ \E pid \in Pids : SetAffinity(pid)
    \/ \E n \in 0..MaxTestCpus : TestNew(n)
    \/ TestStep
    \/ TestFinish

Spec == Init /\ [][Next]_vars

TypeOK ==
    /\ phase \in {"none", "live", "test", "passed", "panicked"}
    /\ \A k \in 1..Len(mask) : mask[k] \subseteq 0..(MASK_BITS - 1)

----------------------------------------------------------------------------
(* Vocabulary of the properties *)

\* ceil(n / d), defined by its two inequalities
Ceil(n, d) == CHOOSE q \in 0..(n + 1) : q * d >= n /\ (q - 1) * d < n

\* the word count the documentation promises for a request of n cpus
PromisedWords(n) == IF Ceil(n, MASK_BITS) >= 1 THEN Ceil(n, MASK_BITS) ELSE 1

\* is_set(cpu) returned true / returned false
Reads1(m, cpu) == LET r == is_set(m, cpu) IN ~r.panic /\ r.val
Reads0(m, cpu) == LET r == is_set(m, cpu) IN ~r.panic /\ ~r.val

\* the indices at which a buffer is probed: the call arguments of the model,
\* the scalar boundaries, the cpus of an affinity mask and both neighbours of c
Probes(c) == CpuIndices \cup ValueBits \cup OsCpus \cup {3, 29} \cup {c + 1} \cup ({c - 1} \ {-1})

\* a step that is a call of the named method on a live CpuSet
Called(name) == phase = "live" /\ op'.name = name

----------------------------------------------------------------------------
(* C1 .. C10 *)

\* C1: after set(i), for every i and every reachable CpuSet, the call has
\* returned without panicking, word i / 64 exists and is_set(i) is true.
C1_SetGrowsAndSets ==
    op.name = "set" =>
        /\ phase = "live"
        /\ Len(mask) > op.arg \div MASK_BITS
        /\ Reads1(mask, op.arg)

\* C2: is_set(i) with i / 64 at or beyond the word count returns false and
\* does not panic.
C2_IsSetBeyondIsFalse ==
    op.name = "is_set" /\ op.arg \div MASK_BITS >= Len(mask) =>
        /\ phase = "live"
        /\ ret = [kind |-> "bool", val |-> FALSE]

\* C3: clear(i) with i within capacity leaves bit i clear whatever it was
\* before, a second clear(i) changes nothing, and no other bit changes.
C3_ClearIsIdempotent ==
    [][ Called("clear") /\ op'.arg \div MASK_BITS < Len(mask) =>
            /\ Reads0(mask', op'.arg)
            /\ clear(mask', op'.arg) = mask'
            /\ \A j \in Probes(op'.arg) \ {op'.arg} : is_set(mask', j) = is_set(mask, j)
      ]_vars

\* C4: as_u64 returns Err exactly when the byte length exceeds 8, and
\* otherwise Ok(v) where bit i of v equals is_set(i) for every i in 0..63.
C4_AsU64NeverTruncates ==
    op.name = "as_u64" =>
        /\ (ret.kind = "Err") <=> (MASK_BITS \div 8) * Len(mask) > 8
        /\ ret.kind \in {"Ok", "Err"}
        /\ ret.kind = "Ok" =>
               \A i \in 0..63 : (i \in ret.val) <=> Reads1(mask, i)

C4_Witness ==
    /\ op.name = "as_u64"
    /\ ret.kind = "Err"
    /\ Len(mask) = 2
    /\ mask[1] # {}

\* C5: from_mask(v) of an 8, 16, 32 or 64 bit scalar v has every bit beyond
\* the scalar's width clear, and as_u64 of it is Ok(v zero-extended).
C5_FromMaskRoundTrip ==
    ctor.name = "from_mask" =>
        /\ \A k \in 1..Len(mask) :
               \A b \in mask[k] : MASK_BITS * (k - 1) + b < 8 * ctor.arg
        /\ op.name = "as_u64" => ret = [kind |-> "Ok", val |-> ctor.value]

C5_Witness ==
    /\ ctor.name = "from_mask"
    /\ ctor.arg = 2
    /\ op.name = "as_u64"
    /\ ret = [kind |-> "Ok", val |-> {7, 8, 15}]

\* C6: new(n) has exactly max(ceil(n / 64), 1) words, all bits clear, and
\* len() is 8 times that, at least 8; new(0), new(1), new(7) give 8 bytes and
\* new(125) gives 16.
C6_NewSize ==
    ctor.name = "new" =>
        /\ Len(mask) = PromisedWords(ctor.arg)
        /\ \A k \in 1..Len(mask) : mask[k] = {}
        /\ len(mask) = 8 * PromisedWords(ctor.arg)
        /\ len(mask) >= 8
        /\ ctor.arg \in {0, 1, 7} => len(mask) = 8
        /\ ctor.arg = 125 => len(mask) = 16
        /\ op.name = "len" => ret = [kind |-> "usize", val |-> 8 * PromisedWords(ctor.arg)]

C6_Witness ==
    /\ ctor = [name |-> "new", arg |-> 125, value |-> {}]
    /\ op.name = "len"
    /\ ret.val = 16

\* C7: single(c) returns without panicking a buffer of ceil((c + 1) / 64)
\* words in which is_set(j) returns true exactly when j = c, and for c < 64
\* as_u64 of it is Ok(1 << c).
C7_SingleHasOneBit ==
    ctor.name = "single" =>
        /\ op.name = "single" => phase = "live"
        /\ Len(mask) = Ceil(ctor.arg + 1, MASK_BITS)
        /\ \A j \in 0..(MASK_BITS * (Len(mask) + 1)) : Reads1(mask, j) <=> j = ctor.arg
        /\ \A j \in 0..(MASK_BITS * Len(mask) - 1) : j # ctor.arg => Reads0(mask, j)
        /\ op.name = "as_u64" /\ ctor.arg < 64 =>
               ret = [kind |-> "Ok", val |-> {ctor.arg}]

C7_Witness ==
    /\ ctor.name = "single"
    /\ ctor.arg = 63
    /\ op.name = "as_u64"
    /\ ret = [kind |-> "Ok", val |-> {63}]

\* C8: a constructed buffer has at least one word, no call makes the word
\* count smaller, and only set makes it larger.
C8_NeverShrinks ==
    [][ /\ phase' # "none" => Len(mask') >= 1
        /\ phase # "none" => Len(mask') >= Len(mask)
        /\ phase # "none" /\ Len(mask') > Len(mask) => op'.name = "set"
      ]_vars

C8_Witness ==
    /\ op.name = "set"
    /\ Len(mask) = 10000 \div MASK_BITS

\* C9: clear(i) with i / 64 at or beyond the word count does not panic and
\* leaves the buffer as it was: same word count, same is_set(j) for every j.
C9_ClearBeyondIsNoOp ==
    [][ Called("clear") /\ op'.arg \div MASK_BITS >= Len(mask) =>
            /\ phase' = "live"
            /\ Len(mask') = Len(mask)
            /\ mask' = mask
            /\ \A j \in Probes(op'.arg) : is_set(mask', j) = is_set(mask, j)
      ]_vars

C9_Witness ==
    /\ phase = "live"
    /\ op.name = "clear"
    /\ op.arg \div MASK_BITS = Len(mask)
    /\ mask[1] # {}

\* C10: a set(i) that returns changes the result of is_set(j) for no j # i;
\* and after new(n), set(0), ..., set(k - 1) with k <= n, is_set(j) is true
\* for every j < k and false for every j with k <= j < n.
C10_SetChangesOnlyItsBit ==
    [][ /\ Called("set") /\ phase' = "live" =>
               \A j \in Probes(op'.arg) \ {op'.arg} : is_set(mask', j) = is_set(mask, j)
        /\ op'.name = "test" =>
               /\ phase' # "panicked"
               /\ \A j \in 0..(test_max' - 1) :
                      IF j < test_i' THEN Reads1(mask', j) ELSE Reads0(mask', j)
      ]_vars

C10_Witness ==
    /\ phase = "test"
    /\ test_max = 100
    /\ test_i = 65

====
